---- MODULE Spec2Model ----
(***************************************************************************)
(* Model of drivers/nvdimm/virtio_pmem.c: the attach path                  *)
(* (virtio_pmem_probe, init_vq), the detach path (virtio_pmem_remove) and  *)
(* the flush request / completion engine the probe wires up                *)
(* (async_pmem_flush, virtio_pmem_host_ack), which is described by the     *)
(* specification sections 4.2 and 4.3.                                     *)
(***************************************************************************)
EXTENDS Integers, Sequences, FiniteSets, TLC

(***************************************************************************)
(* Bounds of the model.                                                    *)
(***************************************************************************)
\* Number of concurrent callers of the flush callback (each submits once).
NumCallers == 2
\* Number of times the driver core may call virtio_pmem_probe (attach path).
MaxAttach == 2
\* Number of spurious (repeated) completions the host may deliver.
MaxDup == 1

(***************************************************************************)
(* Program constants.                                                      *)
(***************************************************************************)
EINVAL == 22
ENOMEM == 12
ENXIO == 6
NUMA_NO_NODE == -1

(***************************************************************************)
(* 64-bit unsigned values: eight bytes, most significant byte first.       *)
(* Device memory (the configuration space) is a sequence of eight bytes    *)
(* in address order.                                                       *)
(***************************************************************************)
U64Zero == <<0, 0, 0, 0, 0, 0, 0, 0>>
U64Max == <<255, 255, 255, 255, 255, 255, 255, 255>>

\* A read that takes the field's bytes in address order as they stand.
be64_to_cpu(mem) ==
    [i \in 1..8 |-> mem[i]]

\* le64_to_cpu, as done by virtio_cread_le on a __le64 field: the byte at the
\* lowest address is the least significant one.
le64_to_cpu(mem) ==
    [i \in 1..8 |-> mem[9 - i]]

RECURSIVE AddCarry(_, _, _, _)
\* Bytes 1..i of a + b + c, where c is the carry into byte i (u64 wrap-around).
AddCarry(a, b, i, c) ==
    IF i = 0 THEN <<>>
    ELSE LET s == a[i] + b[i] + c
         IN  Append(AddCarry(a, b, i - 1, s \div 256), s % 256)

\* u64 addition modulo 2^64.
U64Add(a, b) ==
    AddCarry(a, b, 8, 0)

\* u64 subtraction of one modulo 2^64.
U64Dec(a) ==
    U64Add(a, U64Max)

(***************************************************************************)
(* The environment of one device: what the host and the platform answer.   *)
(***************************************************************************)
NoRegion == [present |-> FALSE, addr |-> U64Zero, len |-> U64Zero]

\* virtio_get_shm_region(vdev, &pmem_region, VIRTIO_PMEM_SHMCAP_ID_PMEM_REGION)
ShmRegions ==
    { NoRegion,
      [present |-> TRUE, addr |-> <<0, 0, 0, 1, 0, 0, 0, 0>>,
                         len  |-> <<0, 0, 0, 0, 64, 0, 0, 0>>],
      [present |-> TRUE, addr |-> <<0, 0, 0, 3, 0, 0, 0, 0>>,
                         len  |-> U64Zero] }

\* struct virtio_pmem_config as it lies in the configuration space
\* (little-endian start and size, bytes in address order).
PmemConfigs ==
    { [start |-> <<0, 0, 0, 0, 2, 0, 0, 0>>, size |-> <<0, 0, 16, 0, 0, 0, 0, 0>>],
      [start |-> <<0, 240, 255, 255, 255, 255, 255, 255>>,
       size  |-> <<0, 32, 0, 0, 0, 0, 0, 0>>] }

Nodes == {0, 1}

Envs ==
    [ hasGet : BOOLEAN,            \* vdev->config->get != NULL
      shm    : ShmRegions,
      cfg    : PmemConfigs,
      nid    : Nodes,                       \* memory_add_physaddr_to_nid(res.start)
      tnode  : {NUMA_NO_NODE, 1} ]          \* phys_to_target_node(res.start)

(***************************************************************************)
(* State.                                                                  *)
(***************************************************************************)
VARIABLES
    env,        \* the device's environment (fixed)
    pc,         \* where the driver core's attach/detach thread stands
    probesLeft, \* calls of virtio_pmem_probe the driver core will still make
    err,        \* probe's err (its return value once it has returned)
    msg,        \* the dev_err message of the current probe call
    ctx,        \* the devm-allocated struct virtio_pmem: "none" or "live"
    priv,       \* vdev->priv
    drvdata,    \* dev_get_drvdata(&vdev->dev)
    vpmem,      \* vpmem->start, vpmem->size
    res,        \* struct resource res (local of probe)
    ndr,        \* struct nd_region_desc ndr_desc (local of probe)
    cfgReads,   \* configuration fields read by virtio_cread_le
    vqAlloc,    \* the "flush_queue" virtqueue exists
    busReg,     \* the nvdimm bus is registered
    regionReg,  \* the pmem region is registered (its flush callback reachable)
    region,     \* the descriptor the region was created from
    devReady,   \* DRIVER_OK is set and the device has not been reset
    lock,       \* holder of vpmem->pmem_lock: LockFree, LockIrq or LockOf(c)
    pending,    \* vpmem->req_list: tokens of unresolved requests, FIFO
    req,        \* the flush requests by token
    avail,      \* descriptors the driver queued and the host has not consumed
    used,       \* completions the host produced and the driver has not consumed
    dups,       \* spurious completions delivered so far
    cpc,        \* each caller's position in its flush call
    ret,        \* each caller's returned outcome
    disp,       \* the completion callback's position
    uaf         \* a released virtqueue was touched

vars ==
    << env, pc, probesLeft, err, msg, ctx, priv, drvdata, vpmem, res, ndr,
       cfgReads, vqAlloc, busReg, regionReg, region, devReady, lock, pending,
       req, avail, used, dups, cpc, ret, disp, uaf >>

attachVars ==
    << probesLeft, err, msg, ctx, priv, drvdata, vpmem, res, ndr, cfgReads,
       busReg, regionReg, region >>

flushVars ==
    << lock, pending, req, avail, used, dups, cpc, ret, disp, uaf >>

Callers == 1..NumCallers

LockFree == <<>>
LockIrq == <<"irq">>
LockOf(c) == <<"caller", c>>

NoRes == [set |-> FALSE, start |-> U64Zero, end |-> U64Zero]
NoDesc ==
    [res |-> NoRes, numa_node |-> 0, target_node |-> 0, flush |-> "NULL",
     provider_data |-> "NULL", flags |-> {}]
NoVpmem == [start |-> U64Zero, size |-> U64Zero]
DispIdle == [pc |-> "idle", tok |-> 0, status |-> "none", found |-> FALSE]

Statuses == {"Success", "IoError"}

\* The environments the whole system (attach, flush traffic, detach) is
\* explored under: configuration access on and off, the range from the
\* shared-memory region and from the configuration space.
DeviceEnvs ==
    { e \in Envs :
        /\ e.shm.len # U64Zero \/ ~e.shm.present
        /\ e.cfg.start[2] = 0
        /\ e.nid = 0
        /\ e.tnode = NUMA_NO_NODE }

\* The state before the first probe of a device whose environment is e and
\* which the driver core will probe up to n times.
InitState(e, n) ==
    /\ env = e
    /\ pc = "unbound"
    /\ probesLeft = n
    /\ err = 0
    /\ msg = "none"
    /\ ctx = "none"
    /\ priv = "NULL"
    /\ drvdata = "NULL"
    /\ vpmem = NoVpmem
    /\ res = NoRes
    /\ ndr = NoDesc
    /\ cfgReads = {}
    /\ vqAlloc = FALSE
    /\ busReg = FALSE
    /\ regionReg = FALSE
    /\ region = NoDesc
    /\ devReady = FALSE
    /\ lock = LockFree
    /\ pending = <<>>
    /\ req = <<>>
    /\ avail = {}
    /\ used = {}
    /\ dups = 0
    /\ cpc = [c \in Callers |-> "idle"]
    /\ ret = [c \in Callers |-> "none"]
    /\ disp = DispIdle
    /\ uaf = FALSE

\* The whole system: the driver core probes the device once.
Init ==
    \E e \in DeviceEnvs : InitState(e, 1)

\* The attach path is explored under every environment, a failed probe
\* being followed by further ones.
InitAttach ==
    \E e \in Envs : InitState(e, MaxAttach)

(***************************************************************************)
(* virtio_pmem_probe, step by step.                                        *)
(***************************************************************************)
\* Errors virtio_find_single_vq may hand back through PTR_ERR.
VqErrors == {-ENOMEM, -EINVAL}

\* The entry with the configuration access demanded only of a device that
\* advertises no shared-memory region.
ProbeEnterRegionFirst ==
    /\ pc = "unbound"
    /\ probesLeft > 0
    /\ probesLeft' = probesLeft - 1
    /\ ndr' = NoDesc
    /\ res' = NoRes
    /\ cfgReads' = {}
    /\ IF ~env.hasGet /\ ~env.shm.present
       THEN /\ msg' = "config access disabled"
            /\ err' = -EINVAL
            /\ pc' = "unbound"
       ELSE /\ msg' = "none"
            /\ err' = 0
            /\ pc' = "alloc"
    /\ UNCHANGED << env, ctx, priv, drvdata, vpmem, vqAlloc, busReg, regionReg,
                    region, devReady >>
    /\ UNCHANGED flushVars

\* Lines 32-46: entry, the locals' initialisers, the config->get check.
ProbeEnter ==
    /\ pc = "unbound"
    /\ probesLeft > 0
    /\ probesLeft' = probesLeft - 1
    /\ ndr' = NoDesc
    /\ res' = NoRes
    /\ cfgReads' = {}
    /\ IF ~env.hasGet
       THEN /\ msg' = "config access disabled"
            /\ err' = -EINVAL
            /\ pc' = "unbound"
       ELSE /\ msg' = "none"
            /\ err' = 0
            /\ pc' = "alloc"
    /\ UNCHANGED << env, ctx, priv, drvdata, vpmem, vqAlloc, busReg, regionReg,
                    region, devReady >>
    /\ UNCHANGED flushVars

\* The allocation followed at once by the discovery, the call of init_vq
\* left out.
ProbeAllocSkipInitVq ==
    /\ pc = "alloc"
    /\ \E ok \in BOOLEAN :
         IF ok
         THEN /\ ctx' = "live"
              /\ vpmem' = NoVpmem
              /\ priv' = "vpmem"
              /\ pc' = "discover"
              /\ err' = err
         ELSE /\ err' = -ENOMEM
              /\ pc' = "out_err"
              /\ UNCHANGED << ctx, vpmem, priv >>
    /\ UNCHANGED << env, probesLeft, msg, drvdata, res, ndr, cfgReads, vqAlloc,
                    busReg, regionReg, region, devReady >>
    /\ UNCHANGED flushVars

\* Lines 48-55: devm_kzalloc and the two back pointers.
ProbeAlloc ==
    /\ pc = "alloc"
    /\ \E ok \in BOOLEAN :
         IF ok
         THEN /\ ctx' = "live"
              /\ vpmem' = NoVpmem
              /\ priv' = "vpmem"
              /\ pc' = "init_vq"
              /\ err' = err
         ELSE /\ err' = -ENOMEM
              /\ pc' = "out_err"
              /\ UNCHANGED << ctx, vpmem, priv >>
    /\ UNCHANGED << env, probesLeft, msg, drvdata, res, ndr, cfgReads, vqAlloc,
                    busReg, regionReg, region, devReady >>
    /\ UNCHANGED flushVars

\* init_vq (lines 18-30) as called at lines 56-60.
init_vq(r) ==
    IF r = 0
    THEN /\ vqAlloc' = TRUE
         /\ lock' = LockFree
         /\ pending' = <<>>
    ELSE /\ UNCHANGED << vqAlloc, lock, pending >>

ProbeInitVq ==
    /\ pc = "init_vq"
    /\ \E r \in {0} \cup VqErrors :
         /\ init_vq(r)
         /\ err' = r
         /\ IF r = 0
            THEN /\ pc' = "discover"
                 /\ msg' = msg
            ELSE /\ pc' = "out_err"
                 /\ msg' = "failed to initialize virtio pmem vq's"
    /\ UNCHANGED << env, probesLeft, ctx, priv, drvdata, vpmem, res, ndr, cfgReads,
                    busReg, regionReg, region, devReady >>
    /\ UNCHANGED << req, avail, used, dups, cpc, ret, disp, uaf >>

\* Lines 65-75: the address range, from the shared-memory region when the host
\* advertises one and from the configuration space otherwise.
DiscoverRange(e) ==
    IF e.shm.present
    THEN [start |-> e.shm.addr, size |-> e.shm.len, reads |-> {}]
    ELSE [start |-> le64_to_cpu(e.cfg.start), size |-> le64_to_cpu(e.cfg.size),
          reads |-> {"start", "size"}]

\* Lines 77-78: the resource handed to the region.
ResourceOf(start, size) ==
    [set |-> TRUE, start |-> start, end |-> U64Dec(U64Add(start, size))]

\* Lines 62-80.
ProbeDiscover ==
    /\ pc = "discover"
    /\ LET d == DiscoverRange(env)
       IN  /\ vpmem' = [start |-> d.start, size |-> d.size]
           /\ cfgReads' = cfgReads \cup d.reads
           /\ res' = ResourceOf(d.start, d.size)
    /\ pc' = "bus_register"
    /\ UNCHANGED << env, probesLeft, err, msg, ctx, priv, drvdata, ndr, vqAlloc,
                    busReg, regionReg, region, devReady >>
    /\ UNCHANGED flushVars

\* The bus registration whose failure leaves by out_err, past the del_vqs
\* of out_vq.
ProbeBusRegisterLeak ==
    /\ pc = "bus_register"
    /\ \E ok \in BOOLEAN :
         IF ok
         THEN /\ busReg' = TRUE
              /\ drvdata' = "nvdimm_bus"
              /\ pc' = "region_desc"
              /\ UNCHANGED << err, msg >>
         ELSE /\ msg' = "failed to register device with nvdimm_bus"
              /\ err' = -ENXIO
              /\ pc' = "out_err"
              /\ UNCHANGED << busReg, drvdata >>
    /\ UNCHANGED << env, probesLeft, ctx, priv, vpmem, res, ndr, cfgReads, vqAlloc,
                    regionReg, region, devReady >>
    /\ UNCHANGED flushVars

\* Lines 82-90: nvdimm_bus_register and dev_set_drvdata.
ProbeBusRegister ==
    /\ pc = "bus_register"
    /\ \E ok \in BOOLEAN :
         IF ok
         THEN /\ busReg' = TRUE
              /\ drvdata' = "nvdimm_bus"
              /\ pc' = "region_desc"
              /\ UNCHANGED << err, msg >>
         ELSE /\ msg' = "failed to register device with nvdimm_bus"
              /\ err' = -ENXIO
              /\ pc' = "out_vq"
              /\ UNCHANGED << busReg, drvdata >>
    /\ UNCHANGED << env, probesLeft, ctx, priv, vpmem, res, ndr, cfgReads, vqAlloc,
                    regionReg, region, devReady >>
    /\ UNCHANGED flushVars

\* The target node taken from the platform as it is, without the fallback.
TargetNodeNoFallback(numa_node, target_node) ==
    target_node

\* Lines 94-100: the target node, falling back to the NUMA node.
TargetNode(numa_node, target_node) ==
    IF target_node = NUMA_NO_NODE THEN numa_node ELSE target_node

\* Lines 92-105: the region descriptor.
ProbeRegionDesc ==
    /\ pc = "region_desc"
    /\ ndr' = [res |-> res,
               numa_node |-> env.nid,
               target_node |-> TargetNode(env.nid, env.tnode),
               flush |-> "async_pmem_flush",
               provider_data |-> "vdev",
               flags |-> {"ND_REGION_PAGEMAP", "ND_REGION_ASYNC"}]
    /\ pc' = "device_ready"
    /\ UNCHANGED << env, probesLeft, err, msg, ctx, priv, drvdata, vpmem, res,
                    cfgReads, vqAlloc, busReg, regionReg, region, devReady >>
    /\ UNCHANGED flushVars

\* The probe without line 111: the device is left to the driver core to be
\* set ready after the probe has returned.
ProbeDeviceReadyMissing ==
    /\ pc = "device_ready"
    /\ pc' = "region_create"
    /\ UNCHANGED << env, vqAlloc, devReady >>
    /\ UNCHANGED attachVars
    /\ UNCHANGED flushVars

\* Line 111: virtio_device_ready.
ProbeDeviceReady ==
    /\ pc = "device_ready"
    /\ devReady' = TRUE
    /\ pc' = "region_create"
    /\ UNCHANGED << env, vqAlloc >>
    /\ UNCHANGED attachVars
    /\ UNCHANGED flushVars

\* Lines 112-118: nvdimm_pmem_region_create, and the successful return.
ProbeRegionCreate ==
    /\ pc = "region_create"
    /\ \E ok \in BOOLEAN :
         IF ok
         THEN /\ regionReg' = TRUE
              /\ region' = ndr
              /\ pc' = "bound"
              /\ UNCHANGED << err, msg >>
         ELSE /\ msg' = "failed to create nvdimm region"
              /\ err' = -ENXIO
              /\ pc' = "out_nd"
              /\ UNCHANGED << regionReg, region >>
    /\ UNCHANGED << env, probesLeft, ctx, priv, drvdata, vpmem, res, ndr, cfgReads,
                    vqAlloc, busReg, devReady >>
    /\ UNCHANGED flushVars

\* Line 120 (label out_nd): virtio_reset_device.
ProbeOutNdReset ==
    /\ pc = "out_nd"
    /\ devReady' = FALSE
    /\ pc' = "out_nd_unregister"
    /\ UNCHANGED << env, vqAlloc >>
    /\ UNCHANGED attachVars
    /\ UNCHANGED flushVars

\* Line 121: nvdimm_bus_unregister.
ProbeOutNdUnregister ==
    /\ pc = "out_nd_unregister"
    /\ busReg' = FALSE
    /\ regionReg' = FALSE
    /\ pc' = "out_vq"
    /\ UNCHANGED << env, probesLeft, err, msg, ctx, priv, drvdata, vpmem, res, ndr,
                    cfgReads, vqAlloc, region, devReady >>
    /\ UNCHANGED flushVars

\* Line 123 (label out_vq): del_vqs.
ProbeOutVq ==
    /\ pc = "out_vq"
    /\ vqAlloc' = FALSE
    /\ pc' = "out_err"
    /\ UNCHANGED << env, devReady >>
    /\ UNCHANGED attachVars
    /\ UNCHANGED flushVars

\* Lines 124-125 (label out_err): the failing return; the driver core then
\* releases what devm_kzalloc (line 48) allocated.
ProbeOutErr ==
    /\ pc = "out_err"
    /\ ctx' = "none"
    /\ pc' = "unbound"
    /\ UNCHANGED << env, probesLeft, err, msg, priv, drvdata, vpmem, res, ndr,
                    cfgReads, vqAlloc, busReg, regionReg, region, devReady >>
    /\ UNCHANGED flushVars

(***************************************************************************)
(* virtio_pmem_remove, step by step.                                       *)
(***************************************************************************)
\* The remove that starts by deleting the queue, the bus and the region
\* still registered.
RemoveDelVqsFirst ==
    /\ pc = "bound"
    /\ vqAlloc' = FALSE
    /\ pc' = "rm_del_vqs"
    /\ UNCHANGED << env, devReady >>
    /\ UNCHANGED attachVars
    /\ UNCHANGED flushVars

\* Lines 130-132: nvdimm_bus_unregister(dev_get_drvdata(&vdev->dev)).  The
\* region and its bus go, so no new flush can be submitted; of the driver's
\* own state (the lock, the pending collection, the queue) nothing is touched.
RemoveUnregister ==
    /\ pc = "bound"
    /\ busReg' = FALSE
    /\ regionReg' = FALSE
    /\ pc' = "rm_del_vqs"
    /\ UNCHANGED << env, probesLeft, err, msg, ctx, priv, drvdata, vpmem, res, ndr,
                    cfgReads, vqAlloc, region, devReady >>
    /\ UNCHANGED flushVars

\* Line 133: del_vqs.
RemoveDelVqs ==
    /\ pc = "rm_del_vqs"
    /\ vqAlloc' = FALSE
    /\ pc' = "rm_reset"
    /\ UNCHANGED << env, devReady >>
    /\ UNCHANGED attachVars
    /\ UNCHANGED flushVars

\* Lines 134-135: virtio_reset_device and the return; the driver core then
\* releases what devm_kzalloc (line 48) allocated.
RemoveReset ==
    /\ pc = "rm_reset"
    /\ devReady' = FALSE
    /\ ctx' = "none"
    /\ pc' = "removed"
    /\ UNCHANGED << env, probesLeft, err, msg, priv, drvdata, vpmem, res, ndr,
                    cfgReads, vqAlloc, busReg, regionReg, region >>
    /\ UNCHANGED flushVars

(***************************************************************************)
(* The flush request queue (specification 4.2): submit_flush, the region's *)
(* flush callback async_pmem_flush, for caller c.                          *)
(***************************************************************************)
NewRequest(c) == [owner |-> c, slot |-> "unset", wakes |-> 0]

\* The token of caller c's request (callers submit once).
TokenOf(c) ==
    CHOOSE t \in 1..Len(req) : req[t].owner = c

Submitted(c) ==
    \E t \in 1..Len(req) : req[t].owner = c

InPending(t) ==
    \E i \in 1..Len(pending) : pending[i] = t

\* The pending collection without token t.
RemoveToken(list, t) ==
    SelectSeq(list, LAMBDA x : x # t)

\* Steps 1-3: take the device lock, allocate the request with a fresh token,
\* append it to the pending collection, queue its descriptor and kick.
\* Callers are interchangeable: they are numbered in the order they submit.
FlushSubmit(c) ==
    /\ regionReg
    /\ cpc[c] = "idle"
    /\ \A b \in Callers : b < c => cpc[b] # "idle"
    /\ lock = LockFree
    /\ lock' = LockOf(c)
    /\ LET tok == Len(req) + 1
       IN  /\ req' = Append(req, NewRequest(c))
           /\ pending' = Append(pending, tok)
           /\ avail' = avail \cup {tok}
    /\ cpc' = [cpc EXCEPT ![c] = "locked"]
    /\ UNCHANGED << env, pc, vqAlloc, devReady, used, dups, ret, disp, uaf >>
    /\ UNCHANGED attachVars

\* The caller that goes to sleep on its completion with the lock still held.
FlushSuspendLocked(c) ==
    /\ cpc[c] = "locked"
    /\ cpc' = [cpc EXCEPT ![c] = "waiting"]
    /\ UNCHANGED << env, pc, vqAlloc, devReady, lock, pending, req, avail, used,
                    dups, ret, disp, uaf >>
    /\ UNCHANGED attachVars

\* Step 4: release the device lock; step 5: suspend.
FlushUnlock(c) ==
    /\ cpc[c] = "locked"
    /\ lock' = LockFree
    /\ cpc' = [cpc EXCEPT ![c] = "waiting"]
    /\ UNCHANGED << env, pc, vqAlloc, devReady, pending, req, avail, used, dups,
                    ret, disp, uaf >>
    /\ UNCHANGED attachVars

\* Steps 5-6: woken by the dispatcher, return the recorded outcome.
FlushReturn(c) ==
    /\ cpc[c] = "waiting"
    /\ req[TokenOf(c)].wakes > 0
    /\ ret' = [ret EXCEPT ![c] = req[TokenOf(c)].slot]
    /\ cpc' = [cpc EXCEPT ![c] = "returned"]
    /\ UNCHANGED << env, pc, vqAlloc, devReady, lock, pending, req, avail, used,
                    dups, disp, uaf >>
    /\ UNCHANGED attachVars

(***************************************************************************)
(* The host side of the command queue.                                     *)
(***************************************************************************)
\* The host finishes one queued descriptor, in any order, with a status.
HostComplete ==
    /\ devReady
    /\ \E t \in avail, s \in Statuses :
         /\ avail' = avail \ {t}
         /\ used' = used \cup {[tok |-> t, status |-> s]}
    /\ UNCHANGED << env, pc, vqAlloc, devReady, lock, pending, req, dups, cpc,
                    ret, disp, uaf >>
    /\ UNCHANGED attachVars

\* The host signals again a descriptor it has already finished.
HostDuplicate ==
    /\ devReady
    /\ dups < MaxDup
    /\ \E t \in 1..Len(req), s \in Statuses :
         /\ t \notin avail
         /\ \A d \in used : d.tok # t
         /\ used' = used \cup {[tok |-> t, status |-> s]}
    /\ dups' = dups + 1
    /\ UNCHANGED << env, pc, vqAlloc, devReady, lock, pending, req, avail, cpc,
                    ret, disp, uaf >>
    /\ UNCHANGED attachVars

(***************************************************************************)
(* The completion dispatcher (specification 4.3): virtio_pmem_host_ack,    *)
(* the callback init_vq hands to virtio_find_single_vq.                    *)
(***************************************************************************)
\* Resolve as a queue-order matcher would do it: the oldest pending request is
\* taken to be the finished one.
ResolveByPosition(d) ==
    IF pending # <<>>
    THEN /\ pending' = Tail(pending)
         /\ req' = [req EXCEPT ![Head(pending)].slot = d.status]
         /\ disp' = [pc |-> "locked", tok |-> Head(pending),
                     status |-> d.status, found |-> TRUE]
    ELSE /\ UNCHANGED << pending, req >>
         /\ disp' = [pc |-> "locked", tok |-> d.tok, status |-> d.status,
                     found |-> FALSE]

\* Resolve without the membership test: the status is recorded and the
\* caller signalled whether or not the token is still pending.
ResolveUnchecked(d) ==
    /\ pending' = RemoveToken(pending, d.tok)
    /\ req' = [req EXCEPT ![d.tok].slot = d.status]
    /\ disp' = [pc |-> "locked", tok |-> d.tok, status |-> d.status,
                found |-> TRUE]

\* Resolve that records the status and leaves the request on the list.
ResolveNoRemove(d) ==
    IF InPending(d.tok)
    THEN /\ pending' = pending
         /\ req' = [req EXCEPT ![d.tok].slot = d.status]
         /\ disp' = [pc |-> "locked", tok |-> d.tok, status |-> d.status,
                     found |-> TRUE]
    ELSE /\ UNCHANGED << pending, req >>
         /\ disp' = [pc |-> "locked", tok |-> d.tok, status |-> d.status,
                     found |-> FALSE]

\* Resolve that treats a reported error as a failure of the queue: every
\* pending request is failed with it and the collection emptied.
ResolveFailAll(d) ==
    IF InPending(d.tok)
    THEN /\ pending' = IF d.status = "IoError" THEN <<>>
                        ELSE RemoveToken(pending, d.tok)
         /\ req' = [t \in 1..Len(req) |->
                      IF t = d.tok \/ (d.status = "IoError" /\ InPending(t))
                      THEN [req[t] EXCEPT !.slot = d.status]
                      ELSE req[t]]
         /\ disp' = [pc |-> "locked", tok |-> d.tok, status |-> d.status,
                     found |-> TRUE]
    ELSE /\ UNCHANGED << pending, req >>
         /\ disp' = [pc |-> "locked", tok |-> d.tok, status |-> d.status,
                     found |-> FALSE]

\* Steps 2-4 for the finished descriptor d: look the token up in the pending
\* collection, remove it, record the status; an unknown token is dropped.
Resolve(d) ==
    IF InPending(d.tok)
    THEN /\ pending' = RemoveToken(pending, d.tok)
         /\ req' = [req EXCEPT ![d.tok].slot = d.status]
         /\ disp' = [pc |-> "locked", tok |-> d.tok, status |-> d.status,
                     found |-> TRUE]
    ELSE /\ UNCHANGED << pending, req >>
         /\ disp' = [pc |-> "locked", tok |-> d.tok, status |-> d.status,
                     found |-> FALSE]

\* Steps 1-4: take one finished descriptor and the device lock, resolve.
\* The host signals completions for as long as the device has not been reset.
\* Run on a queue that has been released, the callback reads freed memory:
\* it either still finds the descriptor or finds nothing.
HostAckResolve ==
    /\ devReady
    /\ disp.pc = "idle"
    /\ lock = LockFree
    /\ \E d \in used :
         /\ used' = used \ {d}
         /\ IF vqAlloc
            THEN /\ lock' = LockIrq
                 /\ Resolve(d)
                 /\ uaf' = uaf
            ELSE /\ uaf' = TRUE
                 /\ \E seen \in BOOLEAN :
                      IF seen
                      THEN /\ lock' = LockIrq
                           /\ Resolve(d)
                      ELSE UNCHANGED << lock, pending, req, disp >>
    /\ UNCHANGED << env, pc, vqAlloc, devReady, avail, dups, cpc, ret >>
    /\ UNCHANGED attachVars

\* Step 5: release the device lock.
HostAckUnlock ==
    /\ disp.pc = "locked"
    /\ lock' = LockFree
    /\ disp' = IF disp.found THEN [disp EXCEPT !.pc = "signal"] ELSE DispIdle
    /\ UNCHANGED << env, pc, vqAlloc, devReady, pending, req, avail, used, dups,
                    cpc, ret, uaf >>
    /\ UNCHANGED attachVars

\* Step 6: wake the waiting caller.
HostAckSignal ==
    /\ disp.pc = "signal"
    /\ req' = [req EXCEPT ![disp.tok].wakes = @ + 1]
    /\ disp' = DispIdle
    /\ UNCHANGED << env, pc, vqAlloc, devReady, lock, pending, avail, used, dups,
                    cpc, ret, uaf >>
    /\ UNCHANGED attachVars

(***************************************************************************)
(* The system.                                                             *)
(***************************************************************************)
Probe ==
    \/ ProbeEnter
    \/ ProbeAlloc
    \/ ProbeInitVq
    \/ ProbeDiscover
    \/ ProbeBusRegister
    \/ ProbeRegionDesc
    \/ ProbeDeviceReady
    \/ ProbeRegionCreate
    \/ ProbeOutNdReset
    \/ ProbeOutNdUnregister
    \/ ProbeOutVq
    \/ ProbeOutErr

Remove ==
    \/ RemoveUnregister
    \/ RemoveDelVqs
    \/ RemoveReset

Flush ==
    \E c \in Callers :
        \/ FlushSubmit(c)
        \/ FlushUnlock(c)
        \/ FlushReturn(c)

Host ==
    \/ HostComplete
    \/ HostDuplicate

HostAck ==
    \/ HostAckResolve
    \/ HostAckUnlock
    \/ HostAckSignal

Next ==
    \/ Probe
    \/ Remove
    \/ Flush
    \/ Host
    \/ HostAck

Spec ==
    Init /\ [][Next]_vars

\* The attach path alone (no flush can be submitted and no completion can
\* arrive before a probe has succeeded), over every environment.
NextAttach ==
    Probe

SpecAttach ==
    InitAttach /\ [][NextAttach]_vars

\* Scheduling: a handler that has been entered runs to its end, a caller that
\* can proceed does, the completion callback runs when a completion is there
\* and the host finishes what is queued.  Whether and when the driver core
\* probes or removes the device, whether a caller flushes and whether the
\* host repeats a completion is left open.
Fairness ==
    /\ WF_vars(ProbeAlloc \/ ProbeInitVq \/ ProbeDiscover \/ ProbeBusRegister
                 \/ ProbeRegionDesc \/ ProbeDeviceReady \/ ProbeRegionCreate
                 \/ ProbeOutNdReset \/ ProbeOutNdUnregister \/ ProbeOutVq
                 \/ ProbeOutErr)
    /\ WF_vars(RemoveDelVqs \/ RemoveReset)
    /\ \A c \in Callers : WF_vars(FlushUnlock(c) \/ FlushReturn(c))
    /\ WF_vars(HostComplete)
    /\ WF_vars(HostAck)

FairSpec ==
    Spec /\ Fairness

(***************************************************************************)
(* Lifecycle states of the specification's state machine.                  *)
(***************************************************************************)
Detaching == pc \in {"rm_del_vqs", "rm_reset"}
TornDown == pc = "removed"

Blocked(c) == cpc[c] \in {"locked", "waiting"}

(***************************************************************************)
(* C1: on detach the pending flush requests are drained before the command *)
(* queue is released: whenever virtio_pmem_remove releases the queue       *)
(* (del_vqs), the pending collection is empty.                             *)
(***************************************************************************)
C1_DrainBeforeQueueRelease ==
    [][(Detaching /\ vqAlloc /\ ~vqAlloc') => pending = <<>>]_vars

(***************************************************************************)
(* C2: whatever was pending when teardown began and however completions    *)
(* interleave with it, the pending collection is empty once detach has     *)
(* returned.                                                               *)
(***************************************************************************)
C2_PendingEmptyAfterDetach ==
    TornDown => pending = <<>>

(***************************************************************************)
(* C3: completions may arrive in any order; the completion carrying token  *)
(* t resolves exactly the request with token t: it records the reported    *)
(* status in that request's slot, removes that request alone from the      *)
(* pending collection, leaves every other request as it was and wakes that *)
(* request alone; a caller returns the status recorded for its own token.  *)
(***************************************************************************)
Tokens == 1..Len(req)

C3_ResolveStep ==
    \A d \in used \ used' :
        (disp'.pc = "locked" /\ InPending(d.tok)) =>
            /\ req'[d.tok].slot = d.status
            /\ \A i \in 1..Len(pending') : pending'[i] # d.tok
            /\ \A u \in Tokens : u # d.tok =>
                  /\ req'[u] = req[u]
                  /\ InPending(u) <=> (\E i \in 1..Len(pending') : pending'[i] = u)
            /\ disp'.tok = d.tok
            /\ disp'.found

C3_SignalStep ==
    (disp.pc = "signal" /\ disp'.pc = "idle") =>
        \A u \in Tokens :
            req'[u].wakes = req[u].wakes + (IF u = disp.tok THEN 1 ELSE 0)

C3_TokenResolution ==
    /\ [][C3_ResolveStep]_vars
    /\ [][C3_SignalStep]_vars
    /\ [](\A c \in Callers :
            cpc[c] = "returned" =>
                /\ req[TokenOf(c)].owner = c
                /\ ret[c] = req[TokenOf(c)].slot
                /\ ret[c] \in Statuses)

\* The second request has been resolved with an error and its caller has
\* returned while the first one is still pending.
C3_Witness ==
    /\ Len(req) >= 2
    /\ InPending(1)
    /\ cpc[req[2].owner] = "returned"
    /\ ret[req[2].owner] = "IoError"
    /\ cpc[req[1].owner] = "waiting"

(***************************************************************************)
(* C4: a request is resolved at most once: a recorded outcome never        *)
(* changes, a completion whose token is no longer pending changes neither  *)
(* the pending collection nor any request, and no request is signalled     *)
(* twice.                                                                  *)
(***************************************************************************)
C4_Step ==
    /\ \A t \in Tokens : req[t].slot # "unset" => req'[t].slot = req[t].slot
    /\ \A d \in used \ used' :
          ~InPending(d.tok) => UNCHANGED << pending, req, cpc, ret >>

C4_ResolvedAtMostOnce ==
    /\ [][C4_Step]_vars
    /\ [](\A t \in Tokens : req[t].wakes <= 1)

\* The callback holds a repeated completion, carrying another status than
\* the one recorded, and has dropped it.
C4_Witness ==
    /\ disp.pc = "locked"
    /\ ~disp.found
    /\ vqAlloc
    /\ req[disp.tok].slot \in Statuses \ {disp.status}
    /\ req[disp.tok].wakes = 1

(***************************************************************************)
(* C5: on an attached, ready device whose host finishes every queued       *)
(* descriptor, every caller of the flush callback returns, however many    *)
(* callers run concurrently; a caller is signalled exactly once, for its   *)
(* own token, and nobody returns without having been signalled.            *)
(***************************************************************************)
Attached == pc = "bound"

C5_EveryFlushReturns ==
    /\ \A c \in Callers : Blocked(c) ~> (cpc[c] = "returned" \/ ~Attached)
    /\ [](\A c \in Callers :
            /\ cpc[c] = "returned" => req[TokenOf(c)].wakes = 1
            /\ Submitted(c) => req[TokenOf(c)].wakes <= 1)

\* Every caller has flushed and returned while the device is attached.
C5_Witness ==
    /\ Attached
    /\ \A c \in Callers : cpc[c] = "returned"
    /\ devReady

(***************************************************************************)
(* C6: teardown always completes: once detach has begun, the device        *)
(* reaches Torn Down and every caller that is blocked in a flush returns,  *)
(* with the host's outcome or with Quiesced, even if the host completes    *)
(* nothing any more.                                                       *)
(***************************************************************************)
C6_TeardownCompletes ==
    /\ Detaching ~> TornDown
    /\ \A c \in Callers : (Detaching /\ Blocked(c)) ~> cpc[c] = "returned"

(***************************************************************************)
(* C7: the completion callback never runs against a command queue that     *)
(* has been released, and is not running once detach has returned.         *)
(***************************************************************************)
C7_NoCompletionAfterRelease ==
    /\ ~uaf
    /\ TornDown => disp.pc = "idle"

(***************************************************************************)
(* C8: a probe that fails, at whatever stage, returns with no region, no   *)
(* bus and no command queue left and the device not ready; what it had     *)
(* acquired is released in reverse order (reset, bus, queue); and the next *)
(* probe starts from that clean state, so it can succeed.                  *)
(***************************************************************************)
ProbeFailed == pc = "unbound" /\ err # 0

NothingHeld == ~vqAlloc /\ ~busReg /\ ~regionReg /\ ~devReady

C8_ReverseOrder ==
    /\ (vqAlloc /\ ~vqAlloc') => (~busReg /\ ~regionReg /\ ~devReady)
    /\ (busReg /\ ~busReg') => (vqAlloc /\ ~devReady)

C8_AttachUnwind ==
    /\ [](ProbeFailed => (err # 0 /\ NothingHeld))
    /\ [](pc = "alloc" => NothingHeld)
    /\ [][C8_ReverseOrder]_vars

\* A probe has succeeded after an earlier one failed.
C8_Witness ==
    /\ pc = "bound"
    /\ probesLeft <= MaxAttach - 2
    /\ vqAlloc /\ busReg /\ regionReg /\ devReady
    /\ err = 0

(***************************************************************************)
(* C9: once the range is discovered, (start, size) is the shared-memory    *)
(* region's (addr, len) and no configuration field has been read when the  *)
(* host advertises the region; otherwise both fields have been read and    *)
(* (start, size) is their little-endian value: the byte at offset k of a   *)
(* field has weight 256^k.                                                 *)
(***************************************************************************)
Discovered == res.set

\* value (most significant byte first) is what the little-endian field mem holds.
IsLittleEndianValueOf(value, mem) ==
    \A k \in 0..7 : value[8 - k] = mem[k + 1]

C9_DiscoverySource ==
    Discovered =>
        IF env.shm.present
        THEN /\ vpmem.start = env.shm.addr
             /\ vpmem.size = env.shm.len
             /\ cfgReads = {}
        ELSE /\ IsLittleEndianValueOf(vpmem.start, env.cfg.start)
             /\ IsLittleEndianValueOf(vpmem.size, env.cfg.size)
             /\ cfgReads = {"start", "size"}

\* The range has come from the configuration space: 0x200000000, 0x100000.
C9_Witness ==
    /\ Discovered
    /\ ~env.shm.present
    /\ cfgReads = {"start", "size"}
    /\ vpmem.start = <<0, 0, 0, 2, 0, 0, 0, 0>>
    /\ vpmem.size = <<0, 0, 0, 0, 0, 16, 0, 0>>
    /\ pc = "bound"

(***************************************************************************)
(* C10, as claimed: the probe fails with ConfigUnavailable (-EINVAL, at    *)
(* the configuration-access check) exactly when neither source is          *)
(* reachable, that is when configuration access is disabled and no         *)
(* shared-memory region is advertised.                                     *)
(***************************************************************************)
ConfigUnavailable ==
    ProbeFailed /\ err = -EINVAL /\ msg = "config access disabled"

C10_FailsIffNoSourceReachable ==
    (ProbeFailed \/ pc = "bound") =>
        (ConfigUnavailable <=> (~env.hasGet /\ ~env.shm.present))

(***************************************************************************)
(* C10, amended: the probe fails at the configuration-access check, with   *)
(* -EINVAL, exactly when configuration access is disabled, whether or not  *)
(* a shared-memory region is advertised; it then has allocated no device   *)
(* context and no queue and registered no bus and no region.               *)
(***************************************************************************)
C10_FailsIffConfigAccessDisabled ==
    /\ (ProbeFailed \/ pc = "bound") => (ConfigUnavailable <=> ~env.hasGet)
    /\ ~env.hasGet =>
          /\ pc = "unbound"
          /\ ctx = "none"
          /\ priv = "NULL"
          /\ drvdata = "NULL"
          /\ NothingHeld
          /\ ~Discovered

\* Configuration access is disabled, a shared-memory region is advertised,
\* and the probe has failed at the configuration-access check.
C10_Witness ==
    /\ ~env.hasGet
    /\ env.shm.present
    /\ ConfigUnavailable

(***************************************************************************)
(* C11: the target node handed to nvdimm_pmem_region_create is the         *)
(* platform's target node of the region's start address when the platform  *)
(* resolves one, and the NUMA node of that address when the platform       *)
(* answers NUMA_NO_NODE; it is NUMA_NO_NODE only if the NUMA node is.      *)
(***************************************************************************)
C11_TargetNodeFallback ==
    regionReg =>
        /\ region.res.start = vpmem.start
        /\ region.numa_node = env.nid
        /\ env.tnode # NUMA_NO_NODE => region.target_node = env.tnode
        /\ env.tnode = NUMA_NO_NODE => region.target_node = env.nid
        /\ region.target_node = NUMA_NO_NODE => env.nid = NUMA_NO_NODE

\* The platform resolved no target node and the region was created on the
\* NUMA node of its start address, node 1.
C11_Witness ==
    /\ regionReg
    /\ env.tnode = NUMA_NO_NODE
    /\ env.nid = 1
    /\ region.target_node = 1

(***************************************************************************)
(* C12: a failure the host reports for one flush request stays with that   *)
(* request: the step that records the error changes no other request, no   *)
(* other request's membership in the pending collection, no caller's       *)
(* position or result and nothing of the device's lifecycle; an error      *)
(* reaches a request's slot only from a completion carrying that request's *)
(* token; and with an error recorded a flush is accepted as before.        *)
(***************************************************************************)
Lifecycle == << pc, vqAlloc, busReg, regionReg, devReady >>

ErrorRecorded == \E t \in Tokens : req[t].slot = "IoError"

C12_ErrorStep ==
    \A d \in used \ used' :
        (disp'.pc = "locked" /\ disp'.found /\ d.status = "IoError") =>
            /\ \A u \in Tokens : u # d.tok =>
                  /\ req'[u] = req[u]
                  /\ InPending(u) <=> (\E i \in 1..Len(pending') : pending'[i] = u)
            /\ UNCHANGED << cpc, ret >>
            /\ UNCHANGED Lifecycle

C12_ErrorSource ==
    \A u \in Tokens :
        (req'[u].slot = "IoError" /\ req[u].slot # "IoError") =>
            \E d \in used \ used' : d.tok = u /\ d.status = "IoError"

C12_FailureIsolated ==
    /\ [][C12_ErrorStep]_vars
    /\ [][C12_ErrorSource]_vars
    /\ [](\A c \in Callers :
            (cpc[c] = "returned" /\ ret[c] = "IoError") =>
                req[TokenOf(c)].slot = "IoError")
    /\ [](\A c \in Callers :
            ( /\ ErrorRecorded
              /\ regionReg
              /\ lock = LockFree
              /\ cpc[c] = "idle"
              /\ \A b \in Callers : b < c => cpc[b] # "idle" )
            => ENABLED FlushSubmit(c))

\* The first request failed and its caller returned the error; the second
\* request, in flight meanwhile or submitted later, returned success on a
\* device that is still attached and ready.
C12_Witness ==
    /\ Len(req) = 2
    /\ cpc[req[1].owner] = "returned"
    /\ ret[req[1].owner] = "IoError"
    /\ cpc[req[2].owner] = "returned"
    /\ ret[req[2].owner] = "Success"
    /\ Attached /\ devReady /\ regionReg

(***************************************************************************)
(* C13: in every reachable state a flush request is in the pending         *)
(* collection exactly when it has been queued to the host and its slot is  *)
(* not yet set; the collection holds each such request once, in submission *)
(* order; and every step that changes the collection is taken by the       *)
(* holder of the device lock.                                              *)
(***************************************************************************)
Resolved(t) == req[t].slot # "unset"

C13_LockedMutation ==
    pending' # pending =>
        \/ lock' = LockIrq /\ disp'.pc = "locked"
        \/ \E c \in Callers : lock' = LockOf(c) /\ cpc'[c] = "locked"

C13_PendingIffUnresolved ==
    /\ [](\A t \in Tokens : InPending(t) <=> ~Resolved(t))
    /\ [](\A i \in 1..Len(pending) :
            /\ pending[i] \in Tokens
            /\ \A j \in 1..Len(pending) : i < j => pending[i] < pending[j])
    /\ [](avail \subseteq Tokens)
    /\ [][C13_LockedMutation]_vars

\* Two requests were queued; the host has finished the second, which has
\* left the collection, and not yet the first, which is still in it.
C13_Witness ==
    /\ Len(req) = 2
    /\ pending = << 1 >>
    /\ 1 \in avail
    /\ Resolved(2)
    /\ lock = LockFree

(***************************************************************************)
(* C14: the device lock is never held across a suspension: a caller that   *)
(* waits for its completion does not hold the lock, the dispatcher does    *)
(* not hold it when it signals, the lock is held only by a submitter or a  *)
(* dispatcher inside its critical section, and a caller goes to sleep and  *)
(* the dispatcher goes to signal only in a step that leaves the lock free. *)
(***************************************************************************)
Suspended(c) == cpc[c] = "waiting"

C14_ReleaseStep ==
    /\ \A c \in Callers : (~Suspended(c) /\ Suspended(c)') => lock' = LockFree
    /\ (disp.pc # "signal" /\ disp'.pc = "signal") => lock' = LockFree

C14_LockNotHeldSuspended ==
    /\ [](\A c \in Callers : Suspended(c) => lock # LockOf(c))
    /\ [](disp.pc = "signal" => lock # LockIrq)
    /\ [](\A c \in Callers : lock = LockOf(c) => cpc[c] = "locked")
    /\ [](lock = LockIrq <=> disp.pc = "locked")
    /\ [](lock = LockFree \/ lock = LockIrq \/ \E c \in Callers : lock = LockOf(c))
    /\ [][C14_ReleaseStep]_vars

\* The first caller is suspended on its completion while the second caller
\* has taken the lock and is inside its critical section.
C14_Witness ==
    /\ Suspended(1)
    /\ req[TokenOf(1)].wakes = 0
    /\ lock = LockOf(2)
    /\ cpc[2] = "locked"

(***************************************************************************)
(* C15, as claimed: attach goes Uninitialized, Discovering, QueueReady,    *)
(* Registered: the address range is discovered before the command queue    *)
(* is allocated, and the queue is there before the bus or the region is    *)
(* registered.                                                             *)
(***************************************************************************)
C15_DiscoverBeforeQueue ==
    /\ vqAlloc => Discovered
    /\ busReg => vqAlloc
    /\ regionReg => busReg

(***************************************************************************)
(* C15, amended: attach goes Uninitialized, QueueReady, Discovering,       *)
(* Registered: the command queue is allocated (init_vq) before the address *)
(* range is discovered; the discovery touches neither the queue nor the    *)
(* lock nor the pending collection; and the bus and the region are         *)
(* registered only with the queue allocated and the range discovered, the  *)
(* bus before the region.                                                  *)
(***************************************************************************)
C15_AttachStep ==
    /\ (~vqAlloc /\ vqAlloc') => (ctx = "live" /\ ~Discovered /\ ~busReg)
    /\ (~Discovered /\ Discovered') =>
          /\ vqAlloc /\ ~busReg /\ ~regionReg
          /\ UNCHANGED << vqAlloc, devReady >>
          /\ UNCHANGED flushVars
    /\ (~busReg /\ busReg') => (vqAlloc /\ Discovered /\ ~regionReg)
    /\ (~regionReg /\ regionReg') => (vqAlloc /\ Discovered /\ busReg)

C15_QueueBeforeDiscovery ==
    /\ [][C15_AttachStep]_vars
    /\ [](busReg => vqAlloc /\ Discovered)
    /\ [](regionReg => busReg)
    /\ [](pc = "discover" => vqAlloc /\ ~Discovered)

\* The queue is allocated and the range, taken from the shared-memory
\* region, discovered; the bus is not yet registered.
C15_Witness ==
    /\ pc = "bus_register"
    /\ vqAlloc
    /\ Discovered
    /\ env.shm.present
    /\ ~busReg

(***************************************************************************)
(* C16: a failed probe reports one error and leaves no partial device      *)
(* context reachable: once virtio_pmem_probe has returned non-zero,        *)
(* vdev->priv does not refer to the device context (which is freed) and    *)
(* the driver data does not refer to a bus handle that is unregistered.    *)
(***************************************************************************)
C16_NoPartialContext ==
    ProbeFailed =>
        /\ err \in {-EINVAL, -ENOMEM, -ENXIO}
        /\ ctx = "none"
        /\ priv # "vpmem"
        /\ ~(drvdata = "nvdimm_bus" /\ ~busReg)

(***************************************************************************)
(* C17: the range the region is registered with has a strictly positive    *)
(* size and the inclusive end start + size - 1, with start <= end (the     *)
(* 64-bit sum does not wrap around), whatever start and size the host      *)
(* supplies through the shared-memory region or the configuration fields.  *)
(***************************************************************************)
RECURSIVE U64LeFrom(_, _, _)
\* a <= b, decided from byte i on (most significant byte first).
U64LeFrom(a, b, i) ==
    IF i > 8 THEN TRUE
    ELSE IF a[i] # b[i] THEN a[i] < b[i]
    ELSE U64LeFrom(a, b, i + 1)

U64Le(a, b) == U64LeFrom(a, b, 1)

C17_RangeWellFormed ==
    regionReg =>
        /\ vpmem.size # U64Zero
        /\ region.res.start = vpmem.start
        /\ U64Add(region.res.end, <<0, 0, 0, 0, 0, 0, 0, 1>>)
              = U64Add(vpmem.start, vpmem.size)
        /\ U64Le(region.res.start, region.res.end)

(***************************************************************************)
(* C18: the region, and with it the flush callback, becomes visible only   *)
(* on a device that init_vq has set up (queue, lock, empty list) and that  *)
(* virtio_device_ready has marked ready before; so a flush is submitted    *)
(* and a completion dispatched only on a device set up and marked ready    *)
(* earlier in the probe.                                                   *)
(***************************************************************************)
ProbePassedReady == pc \in {"region_create", "bound", "rm_del_vqs", "rm_reset"}

C18_Step ==
    /\ (~devReady /\ devReady') => (vqAlloc /\ ~regionReg /\ lock = LockFree)
    /\ (~regionReg /\ regionReg') =>
          (devReady /\ vqAlloc /\ lock = LockFree /\ pending = <<>>)
    /\ (\E c \in Callers : cpc[c] = "idle" /\ cpc'[c] # "idle") =>
          (devReady /\ vqAlloc /\ regionReg)
    /\ (used' # used \/ (disp'.pc = "locked" /\ disp.pc # "locked")) =>
          (devReady /\ ProbePassedReady)

C18_ReadyBeforeVisible ==
    /\ [][C18_Step]_vars
    /\ [](regionReg => devReady /\ vqAlloc)
    /\ []((~ProbePassedReady /\ pc # "removed") =>
            /\ \A c \in Callers : cpc[c] = "idle"
            /\ req = <<>> /\ used = {} /\ disp = DispIdle)

\* A flush has been submitted and its completion is being dispatched on a
\* bound device that is ready.
C18_Witness ==
    /\ pc = "bound"
    /\ devReady /\ vqAlloc /\ regionReg
    /\ cpc[1] = "waiting"
    /\ disp.pc = "locked"
    /\ disp.found
    /\ disp.tok = TokenOf(1)

(***************************************************************************)
(* C19: on detach the region and its bus are unregistered before the       *)
(* command queue is deleted: the queue goes only with bus and region       *)
(* unregistered, a registered region always has its queue, and a flush is  *)
(* never submitted, and cannot be, on a device whose queue is released.    *)
(***************************************************************************)
C19_Step ==
    /\ (vqAlloc /\ ~vqAlloc') => (~regionReg /\ ~busReg)
    /\ (\E c \in Callers : cpc[c] = "idle" /\ cpc'[c] # "idle") => vqAlloc

C19_UnregisterBeforeDelVqs ==
    /\ [][C19_Step]_vars
    /\ [](regionReg => vqAlloc /\ busReg)
    /\ [](~vqAlloc => \A c \in Callers : ~ENABLED FlushSubmit(c))

\* virtio_pmem_remove has unregistered the bus and deleted the queue; one
\* caller flushed while the device was bound, another has not flushed.
C19_Witness ==
    /\ pc = "rm_reset"
    /\ ~vqAlloc /\ ~regionReg /\ ~busReg
    /\ cpc[1] = "returned"
    /\ cpc[2] = "idle"

(***************************************************************************)
(* C20: wherever the command queue is released after the device was marked *)
(* ready (the region-creation failure path of virtio_pmem_probe, and       *)
(* virtio_pmem_remove), the device has been reset before: the queue is     *)
(* never deleted while the device is ready and can raise completions.      *)
(***************************************************************************)
C20_ResetBeforeDelVqs ==
    [][(vqAlloc /\ ~vqAlloc') => ~devReady]_vars

====
